---- MODULE Spec2Model ----
(***************************************************************************)
(* A model of the GitHub service module (src/utils.py): the Content        *)
(* Decoder (decode_content), the Result Limiter (limiter), the User        *)
(* Aggregator (GitHub.get_user_info) and the recursive clone               *)
(* (GitHub.clone_repo with its nested process_content).                    *)
(*                                                                         *)
(* Bytes and code points are integers, texts and byte strings are          *)
(* sequences of them.  A base64 text is a sequence of characters, each     *)
(* the 6-bit value of an alphabet character (0..63), the padding '=',      *)
(* an ASCII character outside the alphabet (a line break), or a            *)
(* character outside ASCII.                                                *)
(***************************************************************************)
EXTENDS Integers, Sequences, FiniteSets, TLC

VARIABLES
    \* ---- decode_content / get_file_content
    content,        \* the ContentFile.content handed to get_file_content
    decoded,        \* what get_file_content produced
    \* ---- limiter
    data,           \* the iterable handed to limiter
    limit,          \* the limit handed to limiter
    limited,        \* what limiter returned
    \* ---- get_user_info
    account,        \* the remote user: gists and repositories, in API order
    userLimit,      \* the limit handed to get_user_info
    userInfo,       \* the User record get_user_info returned
    \* ---- clone_repo
    remote,         \* the remote repository: one tree per reference
    fs,             \* the local destination: path -> absent, dir or file
    status,         \* "init", "running", "returned" or "raised"
    exc,            \* the exception that escaped the last call ("none")
    stack,          \* pending entries of process_content's open loops
    callRef,        \* ref argument of the current call
    callOverwrite,  \* overwrite argument of the current call
    existed,        \* whether the destination existed when the call began
    fsAtCall,       \* the destination when the call began
    prevPartial,    \* whether the previous call raised during its walk
    log             \* the requests and local effects of the current call

decodeVars == <<content, decoded>>
limiterVars == <<data, limit, limited>>
userVars == <<account, userLimit, userInfo>>
cloneVars == <<remote, fs, status, exc, stack, callRef, callOverwrite,
               existed, fsAtCall, prevPartial, log>>
vars == <<content, decoded, data, limit, limited, account, userLimit, userInfo,
          remote, fs, status, exc, stack, callRef, callOverwrite,
          existed, fsAtCall, prevPartial, log>>

\* ------------------------------------------------------------------ bounds
MaxContentLen == 4
MaxLen == 3
MaxLimit == 4
MaxGists == 2
MaxRepos == 3

Min(a, b) == IF a < b THEN a ELSE b
Max(a, b) == IF a > b THEN a ELSE b

SeqsUpTo(S, n) == UNION {[1..k -> S] : k \in 0..n}
DistinctSeqsUpTo(S, n) ==
    {s \in SeqsUpTo(S, n) : \A i, j \in 1..Len(s) : i # j => s[i] # s[j]}

\* ------------------------------------------------------------------ base64
\* '=' in a base64 text.
PadChar == 64
\* An ASCII character outside the base64 alphabet (b64decode discards it).
JunkChar == 65
\* A character outside ASCII (only a str can hold one).
NonAsciiChar == 66

\* Q, k, w, 6, / and the three special characters.
B64Alphabet == {16, 36, 48, 58, 63, PadChar, JunkChar, NonAsciiChar}

NoException == "none"

\* binascii.a2b_base64 without strict mode, as base64.b64decode(s) calls it:
\* characters outside the alphabet are skipped, padding ends the input once
\* a quad is complete with it, and a quad left open at the end is an error.
RECURSIVE a2b_base64(_, _, _, _, _, _)
a2b_base64(s, i, quad_pos, leftchar, pads, out) ==
    IF i > Len(s)
    THEN IF quad_pos # 0
         THEN [exc |-> "binascii.Error", bytes |-> <<>>]
         ELSE [exc |-> NoException, bytes |-> out]
    ELSE LET ch == s[i] IN
         IF ch = PadChar
         THEN IF quad_pos >= 2 /\ quad_pos + pads + 1 >= 4
              THEN [exc |-> NoException, bytes |-> out]
              ELSE a2b_base64(s, i + 1, quad_pos, leftchar,
                              IF quad_pos >= 2 THEN pads + 1 ELSE pads, out)
         ELSE IF ch >= 64
         THEN a2b_base64(s, i + 1, quad_pos, leftchar, pads, out)
         ELSE CASE quad_pos = 0 ->
                     a2b_base64(s, i + 1, 1, ch, 0, out)
                [] quad_pos = 1 ->
                     a2b_base64(s, i + 1, 2, ch % 16, 0,
                                Append(out, ((leftchar * 4) + (ch \div 16)) % 256))
                [] quad_pos = 2 ->
                     a2b_base64(s, i + 1, 3, ch % 4, 0,
                                Append(out, ((leftchar * 16) + (ch \div 4)) % 256))
                [] OTHER ->
                     a2b_base64(s, i + 1, 0, 0, 0,
                                Append(out, ((leftchar * 64) + ch) % 256))

\* base64.b64decode(s): a str must be ASCII, then a2b_base64.
b64decode(s) ==
    IF \E i \in 1..Len(s) : s[i] = NonAsciiChar
    THEN [exc |-> "ValueError", bytes |-> <<>>]
    ELSE a2b_base64(s, 1, 0, 0, 0, <<>>)

\* ------------------------------------------------------------------- UTF-8
IsCont(b) == b >= 128 /\ b <= 191

\* The number of bytes of the well-formed UTF-8 sequence that starts b
\* (0: none does), by the strict decoder's rules: no overlong forms, no
\* surrogates, nothing above U+10FFFF.
Utf8SeqLen(b) ==
    LET n == Len(b) IN
    CASE b[1] <= 127 -> 1
      [] b[1] >= 194 /\ b[1] <= 223 ->
            IF n >= 2 /\ IsCont(b[2]) THEN 2 ELSE 0
      [] b[1] >= 224 /\ b[1] <= 239 ->
            IF /\ n >= 3 /\ IsCont(b[2]) /\ IsCont(b[3])
               /\ (b[1] = 224 => b[2] >= 160)
               /\ (b[1] = 237 => b[2] <= 159)
            THEN 3 ELSE 0
      [] b[1] >= 240 /\ b[1] <= 244 ->
            IF /\ n >= 4 /\ IsCont(b[2]) /\ IsCont(b[3]) /\ IsCont(b[4])
               /\ (b[1] = 240 => b[2] >= 144)
               /\ (b[1] = 244 => b[2] <= 143)
            THEN 4 ELSE 0
      [] OTHER -> 0

Utf8CodePoint(b, k) ==
    CASE k = 1 -> b[1]
      [] k = 2 -> (b[1] - 192) * 64 + (b[2] - 128)
      [] k = 3 -> (b[1] - 224) * 4096 + (b[2] - 128) * 64 + (b[3] - 128)
      [] OTHER -> (b[1] - 240) * 262144 + (b[2] - 128) * 4096
                  + (b[3] - 128) * 64 + (b[4] - 128)

\* bytes.decode('utf-8'): the code points, or UnicodeDecodeError.
RECURSIVE utf8_decode(_)
utf8_decode(b) ==
    IF b = <<>> THEN [exc |-> NoException, text |-> <<>>]
    ELSE LET k == Utf8SeqLen(b) IN
         IF k = 0 THEN [exc |-> "UnicodeDecodeError", text |-> <<>>]
         ELSE LET rest == utf8_decode(SubSeq(b, k + 1, Len(b))) IN
              IF rest.exc # NoException THEN rest
              ELSE [exc |-> NoException,
                    text |-> <<Utf8CodePoint(b, k)>> \o rest.text]

\* str.encode('utf-8') of one code point, as the text-mode file write does.
Utf8EncodeOne(c) ==
    CASE c <= 127 -> <<c>>
      [] c >= 128 /\ c <= 2047 -> <<192 + (c \div 64), 128 + (c % 64)>>
      [] c >= 2048 /\ c <= 65535 ->
            <<224 + (c \div 4096), 128 + ((c \div 64) % 64), 128 + (c % 64)>>
      [] OTHER ->
            <<240 + (c \div 262144), 128 + ((c \div 4096) % 64),
              128 + ((c \div 64) % 64), 128 + (c % 64)>>

RECURSIVE utf8_encode(_)
utf8_encode(t) ==
    IF t = <<>> THEN <<>> ELSE Utf8EncodeOne(Head(t)) \o utf8_encode(Tail(t))

\* --------------------------------------------------------- decode_content
\* try: return b64decode(content).decode('utf-8'), 1
\* except Exception: return b64decode(content), 0
\* The handler decodes the base64 again, outside any try.
decode_content(c) ==
    LET raw == b64decode(c)
        txt == utf8_decode(raw.bytes)
    IN  IF raw.exc = NoException /\ txt.exc = NoException
        THEN [exc |-> NoException, payload |-> txt.text, flag |-> 1]
        ELSE IF raw.exc # NoException
        THEN [exc |-> raw.exc, payload |-> <<>>, flag |-> 0]
        ELSE [exc |-> NoException, payload |-> raw.bytes, flag |-> 0]

\* ContentFile.content: None, or the base64 text.
NoContent == [present |-> FALSE, chars |-> <<>>]
SomeContent(s) == [present |-> TRUE, chars |-> s]

\* file_content.content or b''
ContentOrEmpty(c) == IF c.present THEN c.chars ELSE <<>>

NotRun == [exc |-> "not run", payload |-> <<>>, flag |-> 0]

Contents == {NoContent} \cup {SomeContent(s) : s \in SeqsUpTo(B64Alphabet, MaxContentLen)}

\* GitHub.get_file_content, after the remote fetch: the decoder's result.
GetFileContent ==
    /\ decoded = NotRun
    /\ decoded' = decode_content(ContentOrEmpty(content))
    /\ UNCHANGED <<content, limiterVars, userVars, cloneVars>>

\* ----------------------------------------------------------------- limiter
NoLimit == [present |-> FALSE, n |-> 0]
Limit(n) == [present |-> TRUE, n |-> n]

\* A slice that takes one item too many: data[:limit + 1].
SliceToInclusive(items, n) ==
    LET L == Len(items)
        stop == IF n + 1 < 0 THEN Max(L + n + 1, 0) ELSE Min(n + 1, L)
    IN  SubSeq(items, 1, stop)

\* data[:n] of a list, with Python's reading of a negative stop.
SliceTo(items, n) ==
    LET L == Len(items)
        stop == IF n < 0 THEN Max(L + n, 0) ELSE Min(n, L)
    IN  SubSeq(items, 1, stop)

\* limiter(data, limit): data is [kind, items]; only a list is sliced.
limiter(d, l) ==
    IF ~l.present THEN d
    ELSE IF d.kind = "list" THEN [d EXCEPT !.items = SliceTo(d.items, l.n)]
    ELSE d

Kinds == {"list", "tuple", "generator"}
Limits == {NoLimit} \cup {Limit(n) : n \in (0 - 2)..MaxLimit}
NotLimited == [kind |-> "not run", items |-> <<>>]

Limiter ==
    /\ limited = NotLimited
    /\ limited' = limiter(data, limit)
    /\ UNCHANGED <<data, limit, decodeVars, userVars, cloneVars>>

\* ----------------------------------------------------------- get_user_info
\* repo.get_issues(state="all") and repo.get_pulls(state="all").
GetIssues(r) == <<[repo |-> r, what |-> "issue"]>>
GetPulls(r) == <<[repo |-> r, what |-> "pull"]>>

\* The two defaultdicts, filled by the loop over the whole of repos and
\* keyed by repo.name.
RepoNames(repos) == {repos[i] : i \in DOMAIN repos}
UserRepoIssues(repos) == [name \in RepoNames(repos) |-> GetIssues(name)]
UserRepoPullRequests(repos) == [name \in RepoNames(repos) |-> GetPulls(name)]

\* An aggregator that gathers issues and pull requests over the limited
\* repositories only.
get_user_info_limited(acct, l) ==
    LET gists == [kind |-> "list", items |-> acct.gists]
        repos == [kind |-> "list", items |-> acct.repos]
    IN  [id |-> acct.id,
         gists |-> limiter(gists, l).items,
         repos |-> limiter(repos, l).items,
         followings |-> <<>>,
         followers |-> <<>>,
         user_repo_issues |-> UserRepoIssues(limiter(repos, l).items),
         user_repo_pull_requests |-> UserRepoPullRequests(limiter(repos, l).items)]

\* GitHub.get_user_info(username, limit), when get_user found the user.
get_user_info(acct, l) ==
    LET gists == [kind |-> "list", items |-> acct.gists]
        repos == [kind |-> "list", items |-> acct.repos]
    IN  [id |-> acct.id,
         gists |-> limiter(gists, l).items,
         repos |-> limiter(repos, l).items,
         followings |-> <<>>,
         followers |-> <<>>,
         user_repo_issues |-> UserRepoIssues(acct.repos),
         user_repo_pull_requests |-> UserRepoPullRequests(acct.repos)]

NoUserInfo == [id |-> 0, gists |-> <<>>, repos |-> <<>>, followings |-> <<>>,
               followers |-> <<>>, user_repo_issues |-> <<>>,
               user_repo_pull_requests |-> <<>>]

Accounts ==
    {[id |-> 1, gists |-> g, repos |-> r] :
        g \in DistinctSeqsUpTo(1..MaxGists, MaxGists),
        r \in DistinctSeqsUpTo(1..MaxRepos, MaxRepos)}

GetUserInfo ==
    /\ userInfo = NoUserInfo
    /\ userInfo' = get_user_info(account, userLimit)
    /\ UNCHANGED <<account, userLimit, decodeVars, limiterVars, cloneVars>>

\* -------------------------------------------------------------- clone_repo
\* Paths are sequences of names below the destination <repo_name>.
Root == <<>>
Parent(p) == SubSeq(p, 1, Len(p) - 1)
Prefixes(p) == {SubSeq(p, 1, k) : k \in 0..Len(p)}

NotSet == "NotSet"
DefaultBranch == "main"
Refs == {"main", "dev"}
\* The reference a request is served from: the default branch for NotSet.
Resolve(ref) == IF ref = NotSet THEN DefaultBranch ELSE ref

\* A ContentFile of a listing.
Entry(path, type) == [path |-> path, type |-> type]

TextA == SomeContent(<<16, 16, 64, 64>>)
TextE == SomeContent(<<48, 58, 36, 64>>)
Bin == SomeContent(<<63, 48, 64, 64>>)

\* {a.txt: text, b/c.bin: bytes}
TreeA ==
    [list |-> (Root :> <<Entry(<<"a.txt">>, "file"), Entry(<<"b">>, "dir")>>)
              @@ (<<"b">> :> <<Entry(<<"b", "c.bin">>, "file")>>),
     blob |-> (<<"a.txt">> :> TextA) @@ (<<"b", "c.bin">> :> Bin)]

\* Another tree: other files under b, a nested directory, a symlink, a file
\* whose content the API leaves out.
TreeB ==
    [list |-> (Root :> <<Entry(<<"b">>, "dir"), Entry(<<"link">>, "symlink"),
                         Entry(<<"a.txt">>, "file")>>)
              @@ (<<"b">> :> <<Entry(<<"b", "y.txt">>, "file"),
                               Entry(<<"b", "d">>, "dir")>>)
              @@ (<<"b", "d">> :> <<Entry(<<"b", "d", "e.txt">>, "file")>>),
     blob |-> (<<"a.txt">> :> Bin) @@ (<<"b", "y.txt">> :> TextE)
              @@ (<<"b", "d", "e.txt">> :> NoContent)]

\* A tree where b is a file.
TreeC ==
    [list |-> (Root :> <<Entry(<<"b">>, "file")>>),
     blob |-> (<<"b">> :> TextA)]

Trees == {TreeA, TreeB, TreeC}

AllPaths ==
    {Root, <<"a.txt">>, <<"b">>, <<"b", "c.bin">>, <<"b", "y.txt">>, <<"b", "d">>,
     <<"b", "d", "e.txt">>, <<"link">>, <<"s.txt">>, <<"d">>}

Absent == [kind |-> "absent", bytes |-> <<>>]
Dir == [kind |-> "dir", bytes |-> <<>>]
File(b) == [kind |-> "file", bytes |-> b]

\* No destination; a populated one with files no remote tree of the model
\* gives these contents; a file where the destination would be.
FsEmpty == [p \in AllPaths |-> Absent]
FsStale ==
    [p \in AllPaths |->
        CASE p \in {Root, <<"b">>} -> Dir
          [] p \in {<<"s.txt">>, <<"b", "y.txt">>} -> File(<<115>>)
          [] OTHER -> Absent]
FsRootIsFile == [p \in AllPaths |-> IF p = Root THEN File(<<115>>) ELSE Absent]
InitialFs == {FsEmpty, FsStale, FsRootIsFile}

\* repo.get_contents(path, ref): the listing of a directory, the ContentFile
\* of a file, or UnknownObjectException.
GetContents(ref, path) ==
    LET tree == remote[Resolve(ref)] IN
    IF path \in DOMAIN tree.list
    THEN [kind |-> "list", entries |-> tree.list[path], content |-> NoContent]
    ELSE IF path \in DOMAIN tree.blob
    THEN [kind |-> "file", entries |-> <<>>, content |-> tree.blob[path]]
    ELSE [kind |-> "missing", entries |-> <<>>, content |-> NoContent]

\* Path.mkdir(parents=True, exist_ok=True)
MkdirP(f, p) ==
    IF f[p].kind = "file" THEN [exc |-> "FileExistsError", fs |-> f]
    ELSE IF \E q \in Prefixes(p) : f[q].kind = "file"
    THEN [exc |-> "NotADirectoryError", fs |-> f]
    ELSE [exc |-> NoException,
          fs |-> [q \in AllPaths |-> IF q \in Prefixes(p) THEN Dir ELSE f[q]]]

\* file_path.open(mode, encoding=...) and f.write(file_content): text is
\* encoded as UTF-8, bytes are written as they are.
WriteFile(f, p, payload, flag) ==
    IF f[Parent(p)].kind = "absent" THEN [exc |-> "FileNotFoundError", fs |-> f]
    ELSE IF f[Parent(p)].kind = "file" THEN [exc |-> "NotADirectoryError", fs |-> f]
    ELSE IF f[p].kind = "dir" THEN [exc |-> "IsADirectoryError", fs |-> f]
    ELSE [exc |-> NoException,
          fs |-> [f EXCEPT ![p] = File(IF flag = 1 THEN utf8_encode(payload)
                                                    ELSE payload)]]

\* One line of the call's record: a remote request or a local effect.
Event(op, path, ref, bytes) == [op |-> op, path |-> path, ref |-> ref, bytes |-> bytes]
GetRepoEvent == Event("get_repo", Root, "-", <<>>)
ListContentsEvent(path, ref) == Event("list_contents", path, ref, <<>>)
GetFileContentEvent(path, ref) == Event("get_file_content", path, ref, <<>>)
MkdirEvent(path) == Event("mkdir", path, "-", <<>>)
ProcessEvent(path) == Event("process", path, "-", <<>>)
WriteEvent(path, bytes) == Event("write", path, "-", bytes)

\* Where a remote request can fail (network, authentication, rate limit).
NetOutcomes == {"ok", "get_repo", "get_contents"}

\* A guard that reads the flag the wrong way round.
SkipCloneInverted(exists, overwrite) == exists /\ overwrite

\* The guard of lines 233-236.
SkipClone(exists, overwrite) == exists /\ ~overwrite

\* The ref process_content passes on: get_repo_content(repo_origin, path) and
\* get_file_content(repo_origin, path) are called without one.
WalkRef(ref) == NotSet

\* A directory path built from the entry's name instead of its path.
DirPathByName(entry) == <<entry.path[Len(entry.path)]>>

\* dir_path = Path(repo_name) / content.path
DirPath(entry) == entry.path

\* file_path = Path(repo_name) / content.path
FilePath(entry) == entry.path

\* Returning from finished loops: frames with nothing left are dropped.
RECURSIVE Unwind(_)
Unwind(st) ==
    IF st = <<>> THEN <<>>
    ELSE IF Head(st) = <<>> THEN Unwind(Tail(st))
    ELSE st

\* An exception handler that restores the destination before re-raising.
PropagateWithCleanup(e, f, l) ==
    /\ status' = "raised"
    /\ exc' = e
    /\ stack' = <<>>
    /\ fs' = fsAtCall
    /\ log' = l

\* An exception nobody catches: the call ends, the destination stays as it is.
Propagate(e, f, l) ==
    /\ status' = "raised"
    /\ exc' = e
    /\ stack' = <<>>
    /\ fs' = f
    /\ log' = l

\* The walk goes on with the frames st, or the call returns.
Continue(st, f, l) ==
    /\ status' = IF Unwind(st) = <<>> THEN "returned" ELSE "running"
    /\ exc' = NoException
    /\ stack' = Unwind(st)
    /\ fs' = f
    /\ log' = l

\* clone_repo up to the first entry: lines 200-205 and 232-240.
CloneStart(ref, overwrite, net) ==
    /\ status # "running"
    /\ callRef' = ref
    /\ callOverwrite' = overwrite
    /\ existed' = (fs[Root].kind # "absent")
    /\ fsAtCall' = fs
    /\ prevPartial' = (status = "raised"
                       /\ \E i \in DOMAIN log : log[i] = MkdirEvent(Root))
    /\ LET l1 == <<GetRepoEvent>>
           l2 == Append(l1, ListContentsEvent(Root, ref))
           contents == GetContents(ref, Root).entries
           mk == MkdirP(fs, Root)
       IN  IF net = "get_repo" THEN Propagate("GithubException", fs, l1)
           ELSE IF net = "get_contents" THEN Propagate("GithubException", fs, l2)
           ELSE IF SkipClone(fs[Root].kind # "absent", overwrite)
           THEN Continue(<<>>, fs, l2)
           ELSE IF mk.exc # NoException THEN Propagate(mk.exc, fs, l2)
           ELSE Continue(<<contents>>, mk.fs, Append(l2, MkdirEvent(Root)))
    /\ UNCHANGED <<remote, decodeVars, limiterVars, userVars>>

CurrentEntry == Head(Head(stack))
Remaining == <<Tail(Head(stack))>> \o Tail(stack)

\* process_content of a directory: lines 217-223.
ProcessDir(net) ==
    /\ status = "running"
    /\ CurrentEntry.type = "dir"
    /\ LET path == CurrentEntry.path
           mk == MkdirP(fs, DirPath(CurrentEntry))
           l0 == Append(log, ProcessEvent(path))
           l1 == Append(l0, MkdirEvent(DirPath(CurrentEntry)))
           l2 == Append(l1, GetRepoEvent)
           l3 == Append(l2, ListContentsEvent(path, WalkRef(callRef)))
           sub == GetContents(WalkRef(callRef), path)
       IN  IF mk.exc # NoException THEN Propagate(mk.exc, fs, l0)
           ELSE IF net = "get_repo" THEN Propagate("GithubException", mk.fs, l2)
           ELSE IF net = "get_contents" THEN Propagate("GithubException", mk.fs, l3)
           ELSE IF sub.kind = "missing"
           THEN Propagate("UnknownObjectException", mk.fs, l3)
           ELSE IF sub.kind = "file" THEN Propagate("TypeError", mk.fs, l3)
           ELSE Continue(<<sub.entries>> \o Remaining, mk.fs, l3)
    /\ UNCHANGED <<remote, callRef, callOverwrite, existed, fsAtCall, prevPartial,
                   decodeVars, limiterVars, userVars>>

\* process_content of a file: lines 224-230.
ProcessFile(net) ==
    /\ status = "running"
    /\ CurrentEntry.type = "file"
    /\ LET path == CurrentEntry.path
           l0 == Append(log, ProcessEvent(path))
           l1 == Append(l0, GetRepoEvent)
           l2 == Append(l1, GetFileContentEvent(path, WalkRef(callRef)))
           got == GetContents(WalkRef(callRef), path)
           dec == decode_content(ContentOrEmpty(got.content))
           wr == WriteFile(fs, FilePath(CurrentEntry), dec.payload, dec.flag)
       IN  IF net = "get_repo" THEN Propagate("GithubException", fs, l1)
           ELSE IF net = "get_contents" THEN Propagate("GithubException", fs, l2)
           ELSE IF got.kind = "missing"
           THEN Propagate("UnknownObjectException", fs, l2)
           ELSE IF got.kind = "list" THEN Propagate("AttributeError", fs, l2)
           ELSE IF dec.exc # NoException THEN Propagate(dec.exc, fs, l2)
           ELSE IF wr.exc # NoException THEN Propagate(wr.exc, fs, l2)
           ELSE Continue(Remaining, wr.fs,
                         Append(l2, WriteEvent(FilePath(CurrentEntry),
                                               wr.fs[FilePath(CurrentEntry)].bytes)))
    /\ UNCHANGED <<remote, callRef, callOverwrite, existed, fsAtCall, prevPartial,
                   decodeVars, limiterVars, userVars>>

\* process_content of any other entry (a symlink, a submodule): no branch.
ProcessOther ==
    /\ status = "running"
    /\ CurrentEntry.type \notin {"dir", "file"}
    /\ Continue(Remaining, fs, Append(log, ProcessEvent(CurrentEntry.path)))
    /\ UNCHANGED <<remote, callRef, callOverwrite, existed, fsAtCall, prevPartial,
                   decodeVars, limiterVars, userVars>>

\* ---------------------------------------------------------- specifications
DecodeIdle == content = NoContent /\ decoded = NotRun
LimiterIdle == data = NotLimited /\ limit = NoLimit /\ limited = NotLimited
UserIdle ==
    /\ account = [id |-> 0, gists |-> <<>>, repos |-> <<>>]
    /\ userLimit = NoLimit
    /\ userInfo = NoUserInfo
CloneIdle ==
    /\ remote = [r \in Refs |-> TreeA]
    /\ fs = FsEmpty
    /\ status = "init"
    /\ exc = NoException
    /\ stack = <<>>
    /\ callRef = NotSet
    /\ callOverwrite = FALSE
    /\ existed = FALSE
    /\ fsAtCall = FsEmpty
    /\ prevPartial = FALSE
    /\ log = <<>>

Init ==
    /\ remote \in [Refs -> Trees]
    /\ fs \in InitialFs
    /\ status = "init"
    /\ exc = NoException
    /\ stack = <<>>
    /\ callRef = NotSet
    /\ callOverwrite = FALSE
    /\ existed = FALSE
    /\ fsAtCall = fs
    /\ prevPartial = FALSE
    /\ log = <<>>
    /\ DecodeIdle /\ LimiterIdle /\ UserIdle

Next ==
    \/ \E ref \in Refs \cup {NotSet}, overwrite \in BOOLEAN, net \in NetOutcomes :
          CloneStart(ref, overwrite, net)
    \/ \E net \in NetOutcomes : ProcessDir(net)
    \/ \E net \in NetOutcomes : ProcessFile(net)
    \/ ProcessOther

Spec == Init /\ [][Next]_vars

InitDecode ==
    /\ content \in Contents
    /\ decoded = NotRun
    /\ LimiterIdle /\ UserIdle /\ CloneIdle

NextDecode == GetFileContent

SpecDecode == InitDecode /\ [][NextDecode]_vars

InitLimiter ==
    /\ data \in {[kind |-> k, items |-> s] : k \in Kinds, s \in SeqsUpTo(1..2, MaxLen)}
    /\ limit \in Limits
    /\ limited = NotLimited
    /\ DecodeIdle /\ UserIdle /\ CloneIdle

NextLimiter == Limiter

SpecLimiter == InitLimiter /\ [][NextLimiter]_vars

InitUser ==
    /\ account \in Accounts
    /\ userLimit \in Limits
    /\ userInfo = NoUserInfo
    /\ DecodeIdle /\ LimiterIdle /\ CloneIdle

NextUser == GetUserInfo

SpecUser == InitUser /\ [][NextUser]_vars

\* ----------------------------------------------------------------- claims
RemoteOps == {"get_repo", "list_contents", "get_file_content"}
LocalOps == {"mkdir", "write", "process"}

\* The tree of the reference the caller asked for.
RequestedTree == remote[Resolve(callRef)]

\* What a remote file's content decodes to.
DecodedBytes(c) == b64decode(ContentOrEmpty(c)).bytes

Walk ==
    \/ \E net \in NetOutcomes : ProcessDir(net)
    \/ \E net \in NetOutcomes : ProcessFile(net)
    \/ ProcessOther

\* C1: a call with overwrite=false on an existing destination makes no
\* remote request and leaves the local filesystem unchanged.
C1_SkipMakesNoRemoteRequest ==
    (status \in {"returned", "raised"} /\ existed /\ ~callOverwrite) =>
        /\ \A i \in DOMAIN log : log[i].op \notin RemoteOps
        /\ fs = fsAtCall

\* C2: every listing and every file fetch of one clone call is made against
\* the reference the caller passed (the default branch when none was).
C2_SingleReference ==
    \A i \in DOMAIN log :
        log[i].op \in {"list_contents", "get_file_content"} =>
            Resolve(log[i].ref) = Resolve(callRef)

\* C3: when clone returns on a destination that did not exist, every file of
\* the remote tree is a local file holding its decoded content, and every
\* directory of the remote tree is a local directory.
C3_TreeFidelity ==
    (status = "returned" /\ ~existed) =>
        /\ \A p \in DOMAIN RequestedTree.blob :
              fs[p] = File(DecodedBytes(RequestedTree.blob[p]))
        /\ \A p \in DOMAIN RequestedTree.list : fs[p] = Dir

\* Tree fidelity holds of every call whose reference is the default branch
\* (no ref, or the default branch by name): C3 fails only where C2 does.
TreeFidelityAtDefaultBranch ==
    Resolve(callRef) = DefaultBranch => C3_TreeFidelity

\* C4: when clone with overwrite=true returns on an existing destination,
\* every remote file was rewritten, and every local file without a
\* counterpart in the remote tree is still there with its content.
C4_AdditiveOverwrite ==
    (status = "returned" /\ existed /\ callOverwrite) =>
        /\ \A p \in DOMAIN RequestedTree.blob :
              /\ \E i \in DOMAIN log : log[i].op = "write" /\ log[i].path = p
              /\ fs[p].kind = "file"
        /\ \A p \in AllPaths :
              (fsAtCall[p].kind = "file" /\ p \notin DOMAIN RequestedTree.blob)
                  => fs[p] = fsAtCall[p]

\* The additive overwrite holds of every call whose reference is the default
\* branch: C4 fails only where C2 does.
AdditiveOverwriteAtDefaultBranch ==
    Resolve(callRef) = DefaultBranch => C4_AdditiveOverwrite

\* C5: when a remote request or a local write raises during the call, the
\* exception reaches the caller, no further entry is processed, and every
\* file and directory written before is on disk as it was written.
C5_NoRollback ==
    status = "raised" =>
        /\ exc # NoException
        /\ stack = <<>>
        /\ ~ENABLED Walk
        /\ \A i \in DOMAIN log :
              /\ log[i].op = "write" => fs[log[i].path] = File(log[i].bytes)
              /\ log[i].op = "mkdir" => fs[log[i].path] = Dir

C5_Witness ==
    /\ status = "raised"
    /\ exc = "GithubException"
    /\ \E i \in DOMAIN log : log[i].op = "write"
    /\ \E i \in DOMAIN log : log[i].op = "mkdir" /\ log[i].path # Root

\* C6: after a clone that failed during its walk, a clone with
\* overwrite=false walks nothing and writes nothing, so the destination stays
\* as the failed clone left it; only a clone with overwrite=true walks.
C6_RetryIsNoOp ==
    /\ (prevPartial /\ ~callOverwrite) =>
          /\ status # "running"
          /\ stack = <<>>
          /\ fs = fsAtCall
          /\ \A i \in DOMAIN log : log[i].op \notin LocalOps
    /\ (prevPartial /\ status = "running") => callOverwrite

C6_Witness ==
    /\ prevPartial
    /\ ~callOverwrite
    /\ status = "returned"
    /\ \E p \in DOMAIN RequestedTree.blob : fs[p].kind = "absent"

\* C7: the decoder never raises: text and isText=1 when the decoded bytes are
\* UTF-8, the raw decoded bytes and isText=0 on any failure.
C7_DecoderNeverRaises ==
    decoded # NotRun =>
        LET raw == b64decode(ContentOrEmpty(content))
            txt == utf8_decode(raw.bytes)
        IN  /\ decoded.exc = NoException
            /\ IF raw.exc = NoException /\ txt.exc = NoException
               THEN decoded.flag = 1 /\ decoded.payload = txt.text
               ELSE decoded.flag = 0 /\ decoded.payload = raw.bytes

C9_AggregationEveryLimit ==
    userInfo # NoUserInfo =>
        /\ userLimit.present =>
              /\ Len(userInfo.gists) <= userLimit.n
              /\ Len(userInfo.repos) <= userLimit.n
        /\ DOMAIN userInfo.user_repo_issues = RepoNames(account.repos)
        /\ DOMAIN userInfo.user_repo_pull_requests = RepoNames(account.repos)
        /\ userInfo.followers = <<>>
        /\ userInfo.followings = <<>>

\* C9, amended: for every limit n >= 0, at most n gists and at most n repos;
\* the two maps hold the issues and the pull requests of every repository of
\* the user, by name; followers and followings are empty.
C9_AggregationNonNegative ==
    userInfo # NoUserInfo =>
        /\ (userLimit.present /\ userLimit.n >= 0) =>
              /\ Len(userInfo.gists) <= userLimit.n
              /\ Len(userInfo.repos) <= userLimit.n
        /\ DOMAIN userInfo.user_repo_issues = RepoNames(account.repos)
        /\ DOMAIN userInfo.user_repo_pull_requests = RepoNames(account.repos)
        /\ \A r \in RepoNames(account.repos) :
              /\ userInfo.user_repo_issues[r] = GetIssues(r)
              /\ userInfo.user_repo_pull_requests[r] = GetPulls(r)
        /\ userInfo.followers = <<>>
        /\ userInfo.followings = <<>>

C9_Witness ==
    /\ userInfo # NoUserInfo
    /\ userLimit = Limit(2)
    /\ Len(account.repos) = 3
    /\ Len(userInfo.repos) = 2
    /\ Cardinality(DOMAIN userInfo.user_repo_issues) = 3

ProcessedAfter(i, d) ==
    SelectSeq(SubSeq(log, i + 1, Len(log)),
              LAMBDA e : e.op = "process" /\ Parent(e.path) = d)
Listed(ref, d) == GetContents(ref, d).entries

\* C10: a file is written only after its parent directory was created; the
\* destination is created before the first entry is processed and a
\* subdirectory before its listing is fetched; the entries of a directory
\* are processed in the order of the listing, and all that lies below an
\* entry is processed before the entry after it.
C10_DirectoryBeforeFile ==
    /\ exc # "FileNotFoundError"
    /\ \A i \in DOMAIN log :
          /\ log[i].op = "write" =>
                \E j \in 1..(i - 1) : log[j] = MkdirEvent(Parent(log[i].path))
          /\ log[i].op = "process" =>
                \E j \in 1..(i - 1) : log[j] = MkdirEvent(Root)
          /\ (log[i].op = "list_contents" /\ log[i].path # Root) =>
                \E j \in 1..(i - 1) : log[j] = MkdirEvent(log[i].path)
          /\ log[i].op = "list_contents" =>
                LET done == ProcessedAfter(i, log[i].path)
                    listing == Listed(log[i].ref, log[i].path)
                IN  /\ Len(done) <= Len(listing)
                    /\ \A k \in 1..Len(done) : done[k].path = listing[k].path
    /\ \A i, k \in DOMAIN log :
          (/\ i < k
           /\ log[i].op = "process" /\ log[k].op = "process"
           /\ log[i].path \in Prefixes(log[k].path)) =>
              \A j \in (i + 1)..(k - 1) :
                  log[j].op = "process" => log[i].path \in Prefixes(log[j].path)

C10_Witness ==
    /\ status = "returned"
    /\ \E i \in DOMAIN log : log[i].op = "write" /\ Len(log[i].path) = 3
    /\ \E i \in DOMAIN log : log[i].op = "write" /\ Len(log[i].path) = 1

====
